---- MODULE Spec2Model ----
(***************************************************************************)
(* KnotSVaaS (src/src/lib.ts): the signed-request pipeline of the client   *)
(* and the verification of inbound event signatures.                       *)
(*                                                                         *)
(* Strings whose structure the code inspects (URLs, JSON bodies) are Texts:*)
(* sequences of tokens, each token an ASCII string or one named non-ASCII  *)
(* character.  Other strings are plain strings.                            *)
(***************************************************************************)
EXTENDS Integers, Sequences, FiniteSets, TLC

VARIABLES
    options,    \* #options of the constructed client
    now,        \* the clock read by +new Date()
    ncalls,     \* number of API method calls made so far
    lastCall,   \* the most recent API method call and how it returned
    inflight,   \* requests handed to #ax and not yet sent or rejected
    network,    \* requests that reached the transport, in order
    rejected,   \* calls whose promise was rejected before dispatch
    event,      \* the SignatureEvent given to checkKnotEventSignature
    verdict,    \* what the last checkKnotEventSignature call did
    constructed, \* the new KnotSVaaS(...) call: its argument and what it did
    settled     \* results the caller holds: promises settled after their request
                \* was sent, and the results of repeated checkKnotEventSignature calls

vars == <<options, now, ncalls, lastCall, inflight, network, rejected, event, verdict,
          constructed, settled>>

---------------------------------------------------------------------------
(* Bounds *)

MaxCalls == 1
MaxClock == 1
MaxConcurrent == 2

---------------------------------------------------------------------------
(* JavaScript values: t is the type, n the number, s the Text of a string *)

Undef == [t |-> "undefined", n |-> 0, s |-> <<>>]
Num(i) == [t |-> "int", n |-> i, s |-> <<ToString(i)>>]
Frac15 == [t |-> "float", n |-> 1, s |-> <<"1.5">>]
NaN == [t |-> "nan", n |-> 0, s |-> <<"NaN">>]
Bool(b) == [t |-> "boolean", n |-> IF b THEN 1 ELSE 0, s |-> <<IF b THEN "true" ELSE "false">>]
StrT(text) == [t |-> "string", n |-> 0, s |-> text]

typeof(v) == IF v.t \in {"int", "float", "nan"} THEN "number" ELSE v.t

NumberIsInteger(v) == v.t = "int"

\* v < k for a number v (NaN compares false with everything)
LessThan(v, k) ==
    CASE v.t = "int" -> v.n < k
      [] v.t = "float" -> v.n < k
      [] OTHER -> FALSE

Truthy(v) ==
    CASE v.t = "int" -> v.n # 0
      [] v.t = "float" -> TRUE
      [] v.t = "nan" -> FALSE
      [] v.t = "undefined" -> FALSE
      [] v.t = "boolean" -> v.n = 1
      [] v.t = "string" -> v.s # <<>>
      [] OTHER -> TRUE

---------------------------------------------------------------------------
(* Texts *)

EAcute == "<U+00E9>"
Grinning == "<U+1F600>"

\* UTF-16 code units of a token: what String.prototype.length counts
Utf16Units(tok) ==
    CASE tok = EAcute -> 1
      [] tok = Grinning -> 2
      [] OTHER -> Len(tok)

\* bytes of a token in UTF-8
Utf8Bytes(tok) ==
    CASE tok = EAcute -> 2
      [] tok = Grinning -> 4
      [] OTHER -> Len(tok)

RECURSIVE StringLength(_)
StringLength(text) ==
    IF text = <<>> THEN 0 ELSE Utf16Units(Head(text)) + StringLength(Tail(text))

RECURSIVE Utf8ByteLength(_)
Utf8ByteLength(text) ==
    IF text = <<>> THEN 0 ELSE Utf8Bytes(Head(text)) + Utf8ByteLength(Tail(text))

\* the characters of a Text as one string
RECURSIVE Flat(_)
Flat(text) == IF text = <<>> THEN "" ELSE Head(text) \o Flat(Tail(text))

endsWithSlash(text) == text # <<>> /\ text[Len(text)] = "/"

\* text.substring(0, text.length - 1) of a Text whose last token is one character
dropLastChar(text) == SubSeq(text, 1, Len(text) - 1)

toLowerCase(s) ==
    CASE s = "Authorization" -> "authorization"
      [] s = "AUTHORIZATION" -> "authorization"
      [] s = "X-Knot-Date" -> "x-knot-date"
      [] s = "X-Api-Key" -> "x-api-key"
      [] s = "Content-Type" -> "content-type"
      [] s = "Content-Length" -> "content-length"
      [] s = "X-Custom" -> "x-custom"
      [] s = "POST" -> "post"
      [] s = "GET" -> "get"
      [] s = "PUT" -> "put"
      [] s = "DELETE" -> "delete"
      [] OTHER -> s

---------------------------------------------------------------------------
(* Header maps: the entries of a JavaScript object, in insertion order.    *)
(* A header value has its type t, its string s, and, when the string is in *)
(* the Authorization wire format, the fields w of that string.             *)

HStr(s) == [t |-> "string", s |-> s, w |-> <<>>]
HNum(i) == [t |-> "number", s |-> ToString(i), w |-> <<>>]
HUndef == [t |-> "undefined", s |-> "undefined", w |-> <<>>]

HasKey(h, name) == \E i \in 1..Len(h) : h[i][1] = name

\* h[name] = value
SetHeader(h, name, value) ==
    IF HasKey(h, name)
    THEN [i \in 1..Len(h) |-> IF h[i][1] = name THEN <<name, value>> ELSE h[i]]
    ELSE Append(h, <<name, value>>)

\* h[name]
GetHeader(h, name) ==
    IF HasKey(h, name)
    THEN h[CHOOSE i \in 1..Len(h) : h[i][1] = name][2]
    ELSE HUndef

---------------------------------------------------------------------------
(* Request bodies: absent (undefined) or an object, a list of members *)

NoData == [present |-> FALSE, fields |-> <<>>]
Obj(fields) == [present |-> TRUE, fields |-> fields]

JsonValue(v) ==
    CASE v.t = "string" -> <<"\"">> \o v.s \o <<"\"">>
      [] v.t = "nan" -> <<"null">>
      [] OTHER -> v.s

\* the members of an object; a member whose value is undefined is left out
RECURSIVE JsonMembers(_, _)
JsonMembers(fields, first) ==
    IF fields = <<>> THEN <<>>
    ELSE IF Head(fields)[2].t = "undefined" THEN JsonMembers(Tail(fields), first)
    ELSE (IF first THEN <<>> ELSE <<",">>)
         \o <<"\"" \o Head(fields)[1] \o "\":">>
         \o JsonValue(Head(fields)[2])
         \o JsonMembers(Tail(fields), FALSE)

\* JSON.stringify(data) of an object
JSONstringify(data) == <<"{">> \o JsonMembers(data.fields, TRUE) \o <<"}">>

---------------------------------------------------------------------------
(* URLs *)

Schemes == {"https://", "http://"}
Hosts == {"staas.knotcity.io", "vaas.knotcity.io", "proxy.test"}
UserInfos == {"user@"}

DefaultStationsEndpoint == <<"https://", "staas.knotcity.io">>
DefaultVehiclesEndpoint == <<"https://", "vaas.knotcity.io">>

\* new URL(text): throws (ok = FALSE) unless text is scheme, [userinfo,] host, path
NewURL(text) ==
    LET hostAt == IF Len(text) >= 2 /\ text[2] \in UserInfos THEN 3 ELSE 2
        valid == /\ Len(text) >= hostAt
                 /\ text[1] \in Schemes
                 /\ text[hostAt] \in Hosts
        rest == SubSeq(text, hostAt + 1, Len(text))
    IN  IF ~valid THEN [ok |-> FALSE, href |-> <<>>, origin |-> <<>>]
        ELSE [ok |-> TRUE,
              href |-> SubSeq(text, 1, hostAt) \o (IF rest = <<>> THEN <<"/">> ELSE rest),
              origin |-> <<text[1], text[hostAt]>>]

IsPrefix(p, text) == Len(p) <= Len(text) /\ SubSeq(text, 1, Len(p)) = p

\* text.split(sep): the pieces of text between the occurrences of sep
RECURSIVE SplitFrom(_, _, _)
SplitFrom(text, sep, cur) ==
    IF IsPrefix(sep, text)
    THEN <<cur>> \o SplitFrom(SubSeq(text, Len(sep) + 1, Len(text)), sep, <<>>)
    ELSE IF text = <<>> THEN <<cur>>
    ELSE SplitFrom(Tail(text), sep, Append(cur, Head(text)))

split(text, sep) == SplitFrom(text, sep, <<>>)

\* url?.href.split(url.origin)[1] || '/'
SignedPath(url) ==
    LET parts == split(url.href, url.origin)
    IN  IF Len(parts) >= 2 /\ parts[2] # <<>> THEN Flat(parts[2]) ELSE "/"

---------------------------------------------------------------------------
(* @knotcity/http-request-signer, from sections 4.1 and 4.2 of the         *)
(* specification.  A signature is the tuple <<key, algorithm, hash,        *)
(* signing string>>: it verifies under the public key of the same name,    *)
(* the same algorithm and hash, and the same signing string only.          *)

PrivateKeyName(pem) ==
    CASE pem = "PRIVATE-k1" -> "k1"
      [] pem = "PRIVATE-k2" -> "k2"
      [] OTHER -> ""

PublicKeyName(pem) ==
    CASE pem = "PUBLIC-k1" -> "k1"
      [] pem = "PUBLIC-k2" -> "k2"
      [] OTHER -> ""

\* the value of the first header whose name is lname, letter case ignored
HasHeaderCI(h, lname) == \E i \in 1..Len(h) : toLowerCase(h[i][1]) = lname

HeaderCI(h, lname) ==
    h[CHOOSE i \in 1..Len(h) :
        /\ toLowerCase(h[i][1]) = lname
        /\ \A j \in 1..(i - 1) : toLowerCase(h[j][1]) # lname][2]

\* one line per name; throws (ok = FALSE) when a named header is missing or
\* the method is not a string
RECURSIVE SigningLines(_, _)
SigningLines(names, req) ==
    IF names = <<>> THEN [ok |-> TRUE, s |-> ""]
    ELSE
        LET lname == toLowerCase(Head(names))
            target == lname = "(request-target)"
            lineOk == IF target THEN req.method.t = "string"
                      ELSE HasHeaderCI(req.headers, lname)
            line == IF target
                    THEN "(request-target): " \o toLowerCase(req.method.s) \o " " \o req.path
                    ELSE lname \o ": " \o HeaderCI(req.headers, lname).s
            more == SigningLines(Tail(names), req)
        IN  IF ~lineOk \/ ~more.ok THEN [ok |-> FALSE, s |-> ""]
            ELSE [ok |-> TRUE,
                  s |-> IF Tail(names) = <<>> THEN line ELSE line \o "\n" \o more.s]

LowerNames(names) == [i \in 1..Len(names) |-> toLowerCase(names[i])]

\* reqSigner.generateAuthorization(req, opts)
generateAuthorization(req, opts) ==
    LET key == PrivateKeyName(opts.privateKey)
        str == SigningLines(opts.headers, req)
        signature == <<key, opts.algorithm, opts.hash, str.s>>
    IN  IF key = "" \/ ~str.ok
        THEN [ok |-> FALSE, value |-> HUndef]
        ELSE [ok |-> TRUE,
              value |-> [t |-> "string", s |-> "Signature",
                         w |-> << <<"keyId", <<opts.keyId>> >>,
                                  <<"algorithm", <<opts.algorithm>> >>,
                                  <<"hash", <<opts.hash>> >>,
                                  <<"headers", LowerNames(opts.headers)>>,
                                  <<"signature", signature>> >>]]

WireFields == {"keyId", "algorithm", "hash", "headers", "signature"}

HasField(w, f) == \E i \in 1..Len(w) : w[i][1] = f
Field(w, f) == w[CHOOSE i \in 1..Len(w) : w[i][1] = f][2]
FieldString(w, f) ==
    IF HasField(w, f) /\ Field(w, f) # <<>> THEN Field(w, f)[1] ELSE ""

\* parseAuthorizationHeader(value): throws on a string that is not
\* Signature followed by known fields with keyId, headers and signature
parseAuthorizationHeader(hv) ==
    LET w == hv.w
        wellFormed == /\ hv.s = "Signature"
                      /\ \A i \in 1..Len(w) : w[i][1] \in WireFields
                      /\ \A f \in {"keyId", "headers", "signature"} : HasField(w, f)
    IN  IF ~wellFormed
        THEN [ok |-> FALSE,
              c |-> [keyId |-> "", algorithm |-> "", hash |-> "",
                     headers |-> <<>>, signature |-> <<>>]]
        ELSE [ok |-> TRUE,
              c |-> [keyId |-> FieldString(w, "keyId"),
                     algorithm |-> FieldString(w, "algorithm"),
                     hash |-> FieldString(w, "hash"),
                     headers |-> Field(w, "headers"),
                     signature |-> Field(w, "signature")]]

\* verifyAuthorization(components, req, publicKey): throws when the signing
\* string cannot be built or the key is no key
verifyAuthorization(compts, req, publicKey) ==
    LET key == PublicKeyName(publicKey)
        str == SigningLines(compts.headers, req)
    IN  IF key = "" \/ ~str.ok THEN [ok |-> FALSE, result |-> FALSE]
        ELSE [ok |-> TRUE,
              result |-> compts.signature = <<key, compts.algorithm, compts.hash, str.s>>]

---------------------------------------------------------------------------
(* The constructor *)

EmptyConfig == [headers |-> <<>>, method |-> "", url |-> <<>>, data |-> NoData]

NoOptions ==
    [stationsEndpoint |-> Undef, vehiclesEndpoint |-> Undef, keyId |-> Undef,
     privateKey |-> Undef, knotPublicKey |-> Undef, axiosRequestConfig |-> EmptyConfig]

Failure(error) == [ok |-> FALSE, error |-> error, options |-> NoOptions]

\* the endpoint as stored: one trailing '/' removed
StoredEndpoint(endpoint) ==
    IF endpoint.t = "string" /\ endsWithSlash(endpoint.s)
    THEN StrT(dropLastChar(endpoint.s))
    ELSE endpoint

\* an endpoint option the constructor throws on
BadEndpoint(endpoint) ==
    /\ endpoint.t # "undefined"
    /\ \/ typeof(endpoint) # "string"
       \/ StringLength(endpoint.s) < 3

\* new KnotSVaaS(raw): raw.kind is the kind of value given as options,
\* raw.config whether axiosRequestConfig was given
Construct(raw) ==
    IF raw.kind \notin {"object", "null"} THEN Failure("SVaaSError")
    ELSE IF raw.kind = "null" THEN Failure("TypeError")
    ELSE IF BadEndpoint(raw.stationsEndpoint) THEN Failure("SVaaSError")
    ELSE IF BadEndpoint(raw.vehiclesEndpoint) THEN Failure("SVaaSError")
    ELSE IF typeof(raw.keyId) # "string" THEN Failure("SVaaSError")
    ELSE IF typeof(raw.privateKey) # "string" THEN Failure("SVaaSError")
    ELSE [ok |-> TRUE, error |-> "",
          options |-> [stationsEndpoint |-> StoredEndpoint(raw.stationsEndpoint),
                       vehiclesEndpoint |-> StoredEndpoint(raw.vehiclesEndpoint),
                       keyId |-> raw.keyId,
                       privateKey |-> raw.privateKey,
                       knotPublicKey |-> raw.knotPublicKey,
                       axiosRequestConfig |->
                           IF raw.config THEN [EmptyConfig EXCEPT !.headers = raw.headers]
                           ELSE EmptyConfig]]

---------------------------------------------------------------------------
(* The API methods.  Each returns what the synchronous part of the call    *)
(* does: a throw, or the method, url and data it hands to makeRequest.     *)

Throw(error) ==
    [thrown |-> TRUE, rejects |-> FALSE, error |-> error,
     method |-> "", url |-> <<>>, data |-> NoData]

\* makeRequest(method, url, data), up to the call of #ax
makeRequest(method, url, data) ==
    [thrown |-> FALSE, rejects |-> FALSE, error |-> "",
     method |-> method, url |-> url, data |-> data]

\* the body r of a method declared async: what it throws rejects the
\* promise the call returns
async(r) == IF r.thrown THEN [r EXCEPT !.thrown = FALSE, !.rejects = TRUE] ELSE r

ResourcePath(version, action, id) ==
    IF Truthy(id)
    THEN <<"/" \o version, "/" \o Flat(id.s), "/" \o action>>
    ELSE <<"/" \o version, "/" \o action>>

BadResourceId(id) == Truthy(id) /\ (~NumberIsInteger(id) \/ LessThan(id, 1))

makeStationRequest(opts, method, version, action, id, data) ==
    IF BadResourceId(id) THEN Throw("SVaaSError")
    ELSE makeRequest(method,
            (IF Truthy(opts.stationsEndpoint) THEN opts.stationsEndpoint.s
             ELSE DefaultStationsEndpoint) \o ResourcePath(version, action, id),
            data)

makeVehicleRequest(opts, method, version, action, id, data) ==
    IF BadResourceId(id) THEN Throw("SVaaSError")
    ELSE makeRequest(method,
            (IF Truthy(opts.vehiclesEndpoint) THEN opts.vehiclesEndpoint.s
             ELSE DefaultVehiclesEndpoint) \o ResourcePath(version, action, id),
            data)

pingStation(opts, stationId) ==
    makeStationRequest(opts, "POST", "v1", "ping", stationId, NoData)

unlockSpot(opts, stationId, spotId, unlockId, ignoreVehicleResponse) ==
    IF ~NumberIsInteger(spotId) \/ LessThan(spotId, 1) THEN Throw("SVaaSError")
    ELSE IF ~NumberIsInteger(unlockId) \/ LessThan(unlockId, 1) THEN Throw("SVaaSError")
    ELSE IF ignoreVehicleResponse.t # "undefined" /\ typeof(ignoreVehicleResponse) # "boolean"
    THEN Throw("SVaaSError")
    ELSE makeStationRequest(opts, "POST", "v1", "unlock", stationId,
            Obj(<< <<"spot", spotId>>, <<"unlock", unlockId>>,
                   <<"ignore_vehicle_response", ignoreVehicleResponse>> >>))

changeStationLabel(opts, stationId, label) ==
    IF typeof(label) # "string" THEN Throw("SVaaSError")
    ELSE IF StringLength(label.s) > 50 THEN Throw("SVaaSError")
    ELSE makeStationRequest(opts, "PUT", "v1", "label", stationId,
            Obj(<< <<"label", label>> >>))

changeStationLabelAndGroup(opts, stationId, label, group) ==
    IF typeof(label) # "string" THEN Throw("SVaaSError")
    ELSE IF StringLength(label.s) > 50 THEN Throw("SVaaSError")
    ELSE IF typeof(group) # "string" THEN Throw("SVaaSError")
    ELSE IF StringLength(group.s) > 50 THEN Throw("SVaaSError")
    ELSE makeStationRequest(opts, "PUT", "v1", "label", stationId,
            Obj(<< <<"label", label>>, <<"group", group>> >>))

getStationInformation(opts, stationId) ==
    async(makeStationRequest(opts, "GET", "v1", "", stationId, NoData))

getEnabledStations(opts) ==
    async(makeStationRequest(opts, "GET", "v1", "enabled", Undef, NoData))

\* variant: the lock id is held to the rule of the unlock id
lockVehicleFromOne(opts, vehicleId, lockId) ==
    IF ~NumberIsInteger(lockId) \/ LessThan(lockId, 1) THEN Throw("SVaaSError")
    ELSE makeVehicleRequest(opts, "POST", "v1", "lock", vehicleId,
            Obj(<< <<"lock", lockId>> >>))

lockVehicle(opts, vehicleId, lockId) ==
    IF ~NumberIsInteger(lockId) \/ LessThan(lockId, 0) THEN Throw("SVaaSError")
    ELSE makeVehicleRequest(opts, "POST", "v1", "lock", vehicleId,
            Obj(<< <<"lock", lockId>> >>))

\* a speed limit of the config that configureVehicle throws on
BadSpeedLimit(v) ==
    v.t # "undefined" /\ (~NumberIsInteger(v) \/ LessThan(v, 6) \/ (v.t = "int" /\ v.n > 30))

\* config is <<lowSpeedLimit, mediumSpeedLimit, highSpeedLimit,
\* cruiseControl, buttonSwitchSpeedMode>>
configureVehicle(opts, vehicleId, config) ==
    IF BadSpeedLimit(config[1]) THEN Throw("SVaaSError")
    ELSE IF BadSpeedLimit(config[2]) THEN Throw("SVaaSError")
    ELSE IF BadSpeedLimit(config[3]) THEN Throw("SVaaSError")
    ELSE IF config[4].t # "undefined" /\ typeof(config[4]) # "boolean" THEN Throw("SVaaSError")
    ELSE IF config[5].t # "undefined" /\ typeof(config[5]) # "boolean" THEN Throw("SVaaSError")
    ELSE makeVehicleRequest(opts, "POST", "v1", "config", vehicleId,
            Obj(<< <<"lowSpeedLimit", config[1]>>, <<"mediumSpeedLimit", config[2]>>,
                   <<"highSpeedLimit", config[3]>>, <<"cruiseControl", config[4]>>,
                   <<"buttonSwitchSpeedMode", config[5]>> >>))

changeVehicleLabel(opts, vehicleId, label) ==
    makeVehicleRequest(opts, "PUT", "v1", "label", vehicleId, Obj(<< <<"label", label>> >>))

changeVehicleLabelAndGroup(opts, vehicleId, label, group) ==
    makeVehicleRequest(opts, "PUT", "v1", "label", vehicleId,
        Obj(<< <<"label", label>>, <<"group", group>> >>))

getVehicleInformation(opts, vehicleId) ==
    async(makeVehicleRequest(opts, "GET", "v1", "", vehicleId, NoData))

getEnabledVehicles(opts) ==
    async(makeVehicleRequest(opts, "GET", "v1", "enabled", Undef, NoData))

getDisabledStations(opts) ==
    makeStationRequest(opts, "GET", "v1", "disabled", Undef, NoData)

unlockVehicle(opts, vehicleId, unlockId, ignoreStationStatus) ==
    IF ~NumberIsInteger(unlockId) \/ LessThan(unlockId, 1) THEN Throw("SVaaSError")
    ELSE IF ignoreStationStatus.t # "undefined" /\ typeof(ignoreStationStatus) # "boolean"
    THEN Throw("SVaaSError")
    ELSE makeVehicleRequest(opts, "POST", "v1", "unlock", vehicleId,
            Obj(<< <<"unlock", unlockId>>, <<"ignore_station_status", ignoreStationStatus>> >>))

---------------------------------------------------------------------------
(* The request interceptor *)

\* variants: Content-Length left out; the request target put first
SignedHeadersWithoutLength == <<"X-Knot-Date", "(request-target)", "Content-Type">>
SignedHeadersTargetFirst == <<"(request-target)", "X-Knot-Date", "Content-Type", "Content-Length">>

SignedHeaders == <<"X-Knot-Date", "(request-target)", "Content-Type", "Content-Length">>

\* the Content-Length the interceptor stamps
ContentLength(data) ==
    ToString(IF data.present THEN StringLength(JSONstringify(data)) ELSE 0)

\* variant: a Content-Type the caller configured is kept
StampedKeepingContentType(opts, c, clock) ==
    LET h1 == SetHeader(c.headers, "X-Knot-Date", HStr(ToString(clock)))
        h2 == SetHeader(h1, "X-Api-Key", HStr(Flat(opts.keyId.s)))
        h3 == IF HasKey(h2, "Content-Type") THEN h2
              ELSE SetHeader(h2, "Content-Type", HStr("application/json"))
    IN  SetHeader(h3, "Content-Length", HStr(ContentLength(c.data)))

\* the headers set before signing
Stamped(opts, c, clock) ==
    LET h1 == SetHeader(c.headers, "X-Knot-Date", HStr(ToString(clock)))
        h2 == SetHeader(h1, "X-Api-Key", HStr(Flat(opts.keyId.s)))
        h3 == SetHeader(h2, "Content-Type", HStr("application/json"))
    IN  SetHeader(h3, "Content-Length", HStr(ContentLength(c.data)))

\* the try block: ok = FALSE when new URL or the signer throws
Authorization(opts, c, headers) ==
    LET url == NewURL(c.url)
        auth == generateAuthorization(
                    [headers |-> headers,
                     method |-> HStr(IF c.method # "" THEN c.method ELSE "POST"),
                     path |-> IF url.ok THEN SignedPath(url) ELSE "/"],
                    [algorithm |-> "ecdsa", hash |-> "sha256",
                     headers |-> SignedHeaders,
                     keyId |-> Flat(opts.keyId.s),
                     privateKey |-> Flat(opts.privateKey.s)])
    IN  IF c.url # <<>> /\ ~url.ok THEN [ok |-> FALSE, value |-> HUndef] ELSE auth

\* variant: the catch block swallows the failure and the config is returned
interceptorSwallowing(opts, c, clock) ==
    LET headers == Stamped(opts, c, clock)
        auth == Authorization(opts, c, headers)
    IN  [ok |-> TRUE, error |-> "",
         c |-> [c EXCEPT !.headers =
                   IF auth.ok THEN SetHeader(headers, "Authorization", auth.value)
                   ELSE headers]]

\* variant: the signature is computed before Content-Type and
\* Content-Length are assigned
interceptorSigningEarly(opts, c, clock) ==
    LET early == SetHeader(SetHeader(c.headers, "X-Knot-Date", HStr(ToString(clock))),
                           "Content-Length", HStr("0"))
        auth == Authorization(opts, c, IF HasKey(early, "Content-Type") THEN early
                                       ELSE SetHeader(early, "Content-Type", HStr("")))
        headers == Stamped(opts, c, clock)
    IN  IF auth.ok
        THEN [ok |-> TRUE, error |-> "",
              c |-> [c EXCEPT !.headers = SetHeader(headers, "Authorization", auth.value)]]
        ELSE [ok |-> FALSE, error |-> "SVaaSError", c |-> [c EXCEPT !.headers = headers]]

\* the interceptor on config c: the config it returns, or the SVaaSError
\* it throws from its catch block
interceptor(opts, c, clock) ==
    LET headers == Stamped(opts, c, clock)
        auth == Authorization(opts, c, headers)
    IN  IF auth.ok
        THEN [ok |-> TRUE, error |-> "",
              c |-> [c EXCEPT !.headers = SetHeader(headers, "Authorization", auth.value)]]
        ELSE [ok |-> FALSE, error |-> "SVaaSError", c |-> [c EXCEPT !.headers = headers]]

---------------------------------------------------------------------------
(* checkKnotEventSignature.  An event has headersKind, the kind of value   *)
(* of event.headers, its entries headers, httpMethod and path.             *)

\* variant: the name is compared as it is written
FindAuthorizationExact(headers) ==
    IF \E i \in 1..Len(headers) : headers[i][1] \in {"Authorization", "authorization"}
    THEN CHOOSE i \in 1..Len(headers) :
            /\ headers[i][1] \in {"Authorization", "authorization"}
            /\ \A j \in 1..(i - 1) : headers[j][1] \notin {"Authorization", "authorization"}
    ELSE 0

\* headers.find(e => e[0].toLocaleLowerCase() === 'authorization'): its
\* index, 0 when there is none
FindAuthorization(headers) ==
    IF \E i \in 1..Len(headers) : toLowerCase(headers[i][1]) = "authorization"
    THEN CHOOSE i \in 1..Len(headers) :
            /\ toLowerCase(headers[i][1]) = "authorization"
            /\ \A j \in 1..(i - 1) : toLowerCase(headers[j][1]) # "authorization"
    ELSE 0

includes(list, x) == \E i \in 1..Len(list) : list[i] = x

\* variant: one of the two is enough
CoversEither(components) ==
    \/ includes(components.headers, "x-knot-date")
    \/ includes(components.headers, "(request-target)")

\* the declared header list covers the date and the request target
CoversRequired(components) ==
    /\ includes(components.headers, "x-knot-date")
    /\ includes(components.headers, "(request-target)")

\* variant: the defaults replace what the header declares
DefaultedAlways(components) ==
    [components EXCEPT !.hash = "sha256", !.algorithm = "ecdsa"]

\* variant: a default replaces only the field that is missing
DefaultedFieldByField(components) ==
    [components EXCEPT !.hash = IF @ = "" THEN "sha256" ELSE @,
                       !.algorithm = IF @ = "" THEN "ecdsa" ELSE @]

\* the components given to verifyAuthorization
Defaulted(components) ==
    IF components.algorithm # "" /\ components.hash # ""
    THEN components
    ELSE [components EXCEPT !.hash = "sha256", !.algorithm = "ecdsa"]

Outcome(threw, result, parsed, verified, algorithm, hash) ==
    [threw |-> threw, result |-> result, parsed |-> parsed, verified |-> verified,
     algorithm |-> algorithm, hash |-> hash]

\* the try block: threw tells whether an exception left it, parsed and
\* verified whether parseAuthorizationHeader and verifyAuthorization were
\* called, algorithm and hash what verifyAuthorization was called with
TryCheck(ev, opts) ==
    IF ev.headersKind \in {"undefined", "null"}
    THEN Outcome(TRUE, FALSE, FALSE, FALSE, "", "")
    ELSE
        LET at == FindAuthorization(ev.headers)
        IN  IF at = 0 \/ ev.headers[at][2].t # "string"
            THEN Outcome(FALSE, FALSE, FALSE, FALSE, "", "")
            ELSE
                LET parsed == parseAuthorizationHeader(ev.headers[at][2])
                IN  IF ~parsed.ok THEN Outcome(TRUE, FALSE, TRUE, FALSE, "", "")
                    ELSE IF ~CoversRequired(parsed.c)
                    THEN Outcome(FALSE, FALSE, TRUE, FALSE, "", "")
                    ELSE
                        LET compts == Defaulted(parsed.c)
                            v == verifyAuthorization(compts,
                                    [headers |-> ev.headers, method |-> ev.httpMethod,
                                     path |-> ev.path],
                                    Flat(opts.knotPublicKey.s))
                        IN  Outcome(~v.ok, v.ok /\ v.result, TRUE, TRUE,
                                    compts.algorithm, compts.hash)

\* variant: no catch block, an exception leaves the method
checkWithoutCatch(ev, opts) ==
    LET t == TryCheck(ev, opts)
    IN  [returned |-> ~t.threw,
         result |-> t.result,
         caught |-> FALSE,
         parsed |-> t.parsed, verified |-> t.verified,
         algorithm |-> t.algorithm, hash |-> t.hash]

\* variant: an event whose X-Knot-Date is not the time of the clock is
\* refused
checkKnotEventSignatureFresh(ev, opts) ==
    LET t == TryCheck(ev, opts)
        fresh == /\ ev.headersKind = "object"
                 /\ HasHeaderCI(ev.headers, "x-knot-date")
                 /\ HeaderCI(ev.headers, "x-knot-date").s = ToString(now)
    IN  [returned |-> TRUE,
         result |-> IF t.threw \/ ~fresh THEN FALSE ELSE t.result,
         caught |-> t.threw,
         parsed |-> t.parsed, verified |-> t.verified,
         algorithm |-> t.algorithm, hash |-> t.hash]

\* the method: its catch block turns an exception into false
checkKnotEventSignature(ev, opts) ==
    LET t == TryCheck(ev, opts)
    IN  [returned |-> TRUE,
         result |-> IF t.threw THEN FALSE ELSE t.result,
         caught |-> t.threw,
         parsed |-> t.parsed, verified |-> t.verified,
         algorithm |-> t.algorithm, hash |-> t.hash]

---------------------------------------------------------------------------
(* Inputs *)

Raw(kind, stations, vehicles, keyId, privateKey, knotPublicKey, config, headers) ==
    [kind |-> kind, stationsEndpoint |-> stations, vehiclesEndpoint |-> vehicles,
     keyId |-> keyId, privateKey |-> privateKey, knotPublicKey |-> knotPublicKey,
     config |-> config, headers |-> headers]

KeyId == StrT(<<"key-1">>)
Private1 == StrT(<<"PRIVATE-k1">>)
Public1 == StrT(<<"PUBLIC-k1">>)
Public2 == StrT(<<"PUBLIC-k2">>)

CallerHeaders ==
    << <<"Content-Type", HStr("text/plain")>>,
       <<"Authorization", HStr("Basic dXNlcg==")>>,
       <<"X-Custom", HStr("1")>> >>

RawOptions ==
    { Raw("object", Undef, Undef, KeyId, Private1, Public1, FALSE, <<>>),
      Raw("object", StrT(<<"https://", "proxy.test", "/base", "/">>),
          StrT(<<"http://", "proxy.test", "/">>), KeyId, Private1, Public1,
          TRUE, CallerHeaders),
      Raw("object", StrT(<<"abc">>), Undef, KeyId, Private1, Public1, FALSE, <<>>),
      Raw("object", Undef, Undef, KeyId, StrT(<<"not-a-key">>), Public1, FALSE, <<>>),
      Raw("object", StrT(<<"https://", "user@", "proxy.test">>), Undef, KeyId,
          Private1, Public1, FALSE, <<>>),
      Raw("object", Undef, Undef, KeyId, Private1, Public2, TRUE, <<>>),
      Raw("undefined", Undef, Undef, Undef, Undef, Undef, FALSE, <<>>),
      Raw("null", Undef, Undef, Undef, Undef, Undef, FALSE, <<>>),
      Raw("object", Num(5), Undef, KeyId, Private1, Public1, FALSE, <<>>),
      Raw("object", Undef, StrT(<<"ab">>), KeyId, Private1, Public1, FALSE, <<>>),
      Raw("object", Undef, Undef, Undef, Private1, Public1, FALSE, <<>>),
      Raw("object", Undef, Undef, KeyId, Undef, Public1, FALSE, <<>>) }

Clients == {Construct(raw).options : raw \in {r \in RawOptions : Construct(r).ok}}

\* the values given for an endpoint and for a key of the options
EndpointValues ==
    {Undef, StrT(<<"https://", "proxy.test", "/base", "/">>), StrT(<<"abc">>),
     StrT(<<"ab">>), Num(5), StrT(<<"https://", "proxy.test", "/", "/">>)}
KeyValues(key) == {key, Undef, Num(5)}

\* arguments of new KnotSVaaS(...)
ConstructorArguments ==
    RawOptions \cup
    {Raw("object", st, ve, id, pr, pu, FALSE, <<>>) :
        st \in EndpointValues, ve \in {Undef, StrT(<<"http://", "proxy.test", "/">>), StrT(<<"ab">>)},
        id \in KeyValues(KeyId), pr \in {Private1, Undef}, pu \in KeyValues(Public1)}

ResourceIds == {Num(1), Num(0), Frac15, NaN}
TrackingIds == {Num(1), Num(0), Frac15}
Flags == {Undef, StrT(<<"yes">>)}
Labels == {StrT(<<"dock">>), StrT(<<"caf", EAcute>>), Num(5)}

---------------------------------------------------------------------------
(* The client *)

NoCall == [id |-> 0, op |-> "", args |-> <<>>, thrown |-> FALSE, error |-> ""]
NoEvent == [headersKind |-> "undefined", headers |-> <<>>, httpMethod |-> HUndef, path |-> ""]
Request(headers, method, path) == [headers |-> headers, method |-> method, path |-> path]
\* a new KnotSVaaS(raw) call: not yet made, or what Construct(raw) did
NotConstructed(raw) ==
    [called |-> FALSE, raw |-> raw, ok |-> FALSE, error |-> "", options |-> NoOptions]
Constructed(raw) ==
    [called |-> TRUE, raw |-> raw, ok |-> Construct(raw).ok,
     error |-> Construct(raw).error, options |-> Construct(raw).options]

NoVerdict ==
    [done |-> FALSE, of |-> 0, tamper |-> "",
     out |-> [returned |-> FALSE, result |-> FALSE, caught |-> FALSE, parsed |-> FALSE,
              verified |-> FALSE, algorithm |-> "", hash |-> ""]]

Init ==
    /\ \E raw \in RawOptions :
          /\ Construct(raw).ok
          /\ constructed = Constructed(raw)
          /\ options = Construct(raw).options
    /\ settled = {}
    /\ now = 0
    /\ ncalls = 0
    /\ lastCall = NoCall
    /\ inflight = {}
    /\ network = <<>>
    /\ rejected = {}
    /\ event = NoEvent
    /\ verdict = NoVerdict

\* Object.assign(axiosRequestConfig, {method, data, url})
ObjectAssign(config, r) ==
    [config EXCEPT !.method = r.method, !.data = r.data, !.url = r.url]

\* an API method is called: r is what its synchronous part does.  #ax
\* merges the config it is given into a config of its own before it returns
Issue(op, args, r) ==
    /\ ncalls' = ncalls + 1
    /\ lastCall' = [id |-> ncalls + 1, op |-> op, args |-> args,
                    thrown |-> r.thrown, error |-> IF r.thrown THEN r.error ELSE ""]
    /\ rejected' = IF r.rejects
                   THEN rejected \cup {[call |-> ncalls + 1, op |-> op, error |-> r.error,
                                        stage |-> "validation"]}
                   ELSE rejected
    /\ IF r.thrown \/ r.rejects
       THEN UNCHANGED <<options, inflight>>
       ELSE /\ options' = [options EXCEPT
                              !.axiosRequestConfig = ObjectAssign(@, r)]
            /\ inflight' = inflight \cup
                  {[call |-> ncalls + 1, op |-> op, args |-> args, signed |-> FALSE,
                    c |-> ObjectAssign(options.axiosRequestConfig, r)]}
    /\ UNCHANGED <<now, network, event, verdict, constructed, settled>>

Call(op, args, r) == ncalls < MaxCalls /\ Issue(op, args, r)

CallPingStation ==
    \E id \in ResourceIds :
        Call("pingStation", <<id>>, pingStation(options, id))

CallUnlockSpot ==
    \E id \in ResourceIds, spot \in TrackingIds, unlock \in TrackingIds, flag \in Flags :
        Call("unlockSpot", <<id, spot, unlock, flag>>,
             unlockSpot(options, id, spot, unlock, flag))

CallChangeStationLabel ==
    \E id \in ResourceIds, label \in Labels :
        Call("changeStationLabel", <<id, label>>, changeStationLabel(options, id, label))

CallGetDisabledStations ==
    Call("getDisabledStations", <<>>, getDisabledStations(options))

CallUnlockVehicle ==
    \E id \in ResourceIds, unlock \in TrackingIds, flag \in Flags :
        Call("unlockVehicle", <<id, unlock, flag>>,
             unlockVehicle(options, id, unlock, flag))

CallGetStationInformation ==
    \E id \in ResourceIds :
        Call("getStationInformation", <<id>>, getStationInformation(options, id))

CallGetEnabledStations ==
    Call("getEnabledStations", <<>>, getEnabledStations(options))

CallGetVehicleInformation ==
    \E id \in ResourceIds :
        Call("getVehicleInformation", <<id>>, getVehicleInformation(options, id))

CallGetEnabledVehicles ==
    Call("getEnabledVehicles", <<>>, getEnabledVehicles(options))

\* variant: the interceptor is given the stored config object itself
InterceptSharedConfig ==
    \E r \in inflight :
        /\ ~r.signed
        /\ LET shared == [options.axiosRequestConfig EXCEPT !.headers = r.c.headers]
               i == interceptor(options, shared, now)
           IN  IF i.ok
               THEN /\ inflight' = (inflight \ {r}) \cup {[r EXCEPT !.signed = TRUE, !.c = i.c]}
                    /\ UNCHANGED rejected
               ELSE /\ inflight' = inflight \ {r}
                    /\ rejected' = rejected \cup
                          {[call |-> r.call, op |-> r.op, error |-> i.error,
                            stage |-> "signing"]}
        /\ UNCHANGED <<options, now, ncalls, lastCall, network, event, verdict, constructed, settled>>

\* the request interceptor runs on a request handed to #ax
Intercept ==
    \E r \in inflight :
        /\ ~r.signed
        /\ LET i == interceptor(options, r.c, now)
           IN  IF i.ok
               THEN /\ inflight' = (inflight \ {r}) \cup {[r EXCEPT !.signed = TRUE, !.c = i.c]}
                    /\ UNCHANGED rejected
               ELSE /\ inflight' = inflight \ {r}
                    /\ rejected' = rejected \cup
                          {[call |-> r.call, op |-> r.op, error |-> i.error,
                            stage |-> "signing"]}
        /\ UNCHANGED <<options, now, ncalls, lastCall, network, event, verdict, constructed, settled>>

\* the config the interceptor returned is sent
Dispatch ==
    \E r \in inflight :
        /\ r.signed
        /\ inflight' = inflight \ {r}
        /\ network' = Append(network, r)
        /\ UNCHANGED <<options, now, ncalls, lastCall, rejected, event, verdict, constructed, settled>>

\* what the server, or the transport, answers to a request: a transport
\* failure, a status other than 2xx, or status 200 with an envelope whose
\* code is the success value, another value, or missing
Responses == {"transport", "status", "success", "failure", "nocode"}

\* String(data) as the template of the error message renders it
TemplateString(data) == IF data.present THEN "[object Object]" ELSE "undefined"

\* makeRequest after await this.#ax(...): how the promise of the call settles
Settlement(c, response) ==
    CASE response \in {"transport", "status"} ->
            [state |-> "rejected", error |-> "AxiosError", url |-> <<>>, payload |-> ""]
      [] response = "nocode" ->
            [state |-> "rejected", error |-> "SVaaSRequestError", url |-> c.url,
             payload |-> TemplateString(c.data)]
      [] OTHER ->
            [state |-> "resolved", error |-> "", url |-> <<>>, payload |-> ""]

Unsettled == {r \in {network[i] : i \in 1..Len(network)} :
                 \A x \in settled : x.call # r.call}

\* variant: a failed request is handed to #ax again
RespondRetrying ==
    \E r \in Unsettled, response \in Responses :
        /\ IF Settlement(r.c, response).state = "rejected"
           THEN /\ inflight' = inflight \cup {r}
                /\ UNCHANGED settled
           ELSE /\ settled' = settled \cup
                      {[call |-> r.call, op |-> r.op, response |-> response,
                        outcome |-> Settlement(r.c, response)]}
                /\ UNCHANGED inflight
        /\ UNCHANGED <<options, now, ncalls, lastCall, network, rejected, event, verdict,
                       constructed>>

\* the response to a sent request arrives and the promise of its call settles
Respond ==
    \E r \in Unsettled, response \in Responses :
        /\ settled' = settled \cup
              {[call |-> r.call, op |-> r.op, response |-> response,
                outcome |-> Settlement(r.c, response)]}
        /\ UNCHANGED <<options, now, ncalls, lastCall, inflight, network, rejected, event,
                       verdict, constructed>>

Tick ==
    /\ now < MaxClock
    /\ now' = now + 1
    /\ UNCHANGED <<options, ncalls, lastCall, inflight, network, rejected, event, verdict, constructed, settled>>

---------------------------------------------------------------------------
(* Verification of a request the client sent, as its receiver sees it *)

\* the path of a URL on the wire: what follows the host
PathOnTheWire(text) ==
    LET hostAt == IF Len(text) >= 2 /\ text[2] \in UserInfos THEN 3 ELSE 2
        rest == SubSeq(text, hostAt + 1, Len(text))
    IN  IF rest = <<>> THEN "/" ELSE Flat(rest)

Received(r) ==
    [headersKind |-> "object", headers |-> r.c.headers,
     httpMethod |-> HStr(r.c.method), path |-> PathOnTheWire(r.c.url)]

SignedHeaderNames == {"X-Knot-Date", "Content-Type", "Content-Length"}
Tampers == {"none", "path", "method", "methodCase"} \cup SignedHeaderNames

Tampered(ev, tamper) ==
    CASE tamper = "none" -> ev
      [] tamper = "path" -> [ev EXCEPT !.path = @ \o "x"]
      [] tamper = "method" -> [ev EXCEPT !.httpMethod = HStr("DELETE")]
      [] tamper = "methodCase" -> [ev EXCEPT !.httpMethod = HStr(toLowerCase(@.s))]
      [] OTHER -> [ev EXCEPT !.headers =
                      SetHeader(@, tamper, HStr(GetHeader(@, tamper).s \o "0"))]

\* checkKnotEventSignature is called on a sent request, tampered with or not
CheckDispatched ==
    \E i \in 1..Len(network), tamper \in Tampers :
        /\ event' = Tampered(Received(network[i]), tamper)
        /\ verdict' = [done |-> TRUE, of |-> network[i].call, tamper |-> tamper,
                       out |-> checkKnotEventSignature(event', options)]
        /\ UNCHANGED <<options, now, ncalls, lastCall, inflight, network, rejected, constructed, settled>>

Next ==
    \/ CallPingStation
    \/ CallUnlockSpot
    \/ CallChangeStationLabel
    \/ CallGetDisabledStations
    \/ CallUnlockVehicle
    \/ Intercept
    \/ Dispatch
    \/ Tick

\* the client: calls, signing and dispatch as the clock advances
Spec == Init /\ [][Next]_vars

NextRoundTrip ==
    \/ CallPingStation
    \/ CallUnlockSpot
    \/ CallChangeStationLabel
    \/ CallGetDisabledStations
    \/ CallUnlockVehicle
    \/ Intercept
    \/ Dispatch
    \/ CheckDispatched

\* the client, and a receiver verifying what it sent
SpecRoundTrip == Init /\ [][NextRoundTrip]_vars

NextOutcomes ==
    \/ CallPingStation
    \/ CallChangeStationLabel
    \/ CallGetStationInformation
    \/ CallGetEnabledStations
    \/ CallGetVehicleInformation
    \/ CallGetEnabledVehicles
    \/ Intercept
    \/ Dispatch
    \/ Respond

\* the client, its calls followed to the settlement of their promises
SpecOutcomes == Init /\ [][NextOutcomes]_vars

---------------------------------------------------------------------------
(* Verification of arbitrary events: checkKnotEventSignature as a function *)
(* of the event and the client's public key                                *)

EventHeaders ==
    { << <<"X-Knot-Date", HStr("7")>>, <<"Content-Type", HStr("application/json")>>,
         <<"Content-Length", HStr("2")>> >>,
      << <<"x-knot-date", HStr("7")>>, <<"content-type", HStr("application/json")>>,
         <<"content-length", HStr("2")>> >>,
      << <<"Content-Type", HStr("application/json")>>, <<"Content-Length", HStr("2")>> >> }

DeclaredLists ==
    { <<"x-knot-date", "(request-target)", "content-type", "content-length">>,
      <<"x-knot-date", "(request-target)">>,
      <<"(request-target)", "content-type">>,
      <<"x-knot-date", "content-type">>,
      <<"content-type">>,
      <<"X-Knot-Date", "(request-target)">> }

\* the algorithm and hash fields of the header; "" for a field left out
DeclaredPairs ==
    {<<"ecdsa", "sha256">>, <<"", "">>, <<"rsa", "sha512">>, <<"rsa", "">>, <<"", "sha512">>}

Signers == {"k1", "k2"}

\* the Authorization value of a sender holding the private key named key,
\* signing the declared list of req; a sender that declares no algorithm
\* or no hash signs with ecdsa and sha256
SenderAuthorization(key, pair, list, req) ==
    LET algorithm == IF pair[1] = "" THEN "ecdsa" ELSE pair[1]
        hash == IF pair[2] = "" THEN "sha256" ELSE pair[2]
        str == SigningLines(list, req)
    IN  [t |-> "string", s |-> "Signature",
         w |-> << <<"keyId", <<"knot">> >> >>
               \o (IF pair[1] = "" THEN <<>> ELSE << <<"algorithm", <<pair[1]>> >> >>)
               \o (IF pair[2] = "" THEN <<>> ELSE << <<"hash", <<pair[2]>> >> >>)
               \o << <<"headers", list>>,
                     <<"signature", IF str.ok THEN <<key, algorithm, hash, str.s>>
                                    ELSE <<"AAAA">> >> >>]

\* header values no sender of this protocol produces
MalformedAuthorizations ==
    { HNum(5),
      HUndef,
      HStr("Basic dXNlcg=="),
      HStr("Signature keyId="),
      [t |-> "string", s |-> "Signature",
       w |-> << <<"keyId", <<"knot">> >>, <<"headers", <<"x-knot-date", "(request-target)">> >> >>],
      [t |-> "string", s |-> "Signature",
       w |-> << <<"keyId", <<"knot">> >>, <<"nonce", <<"1">> >>,
                <<"headers", <<"x-knot-date", "(request-target)">> >>,
                <<"signature", <<"AAAA">> >> >>],
      [t |-> "string", s |-> "Signature",
       w |-> << <<"keyId", <<"knot">> >>,
                <<"headers", <<"x-knot-date", "(request-target)">> >>,
                <<"signature", <<"AAAA">> >> >>] }

AuthorizationNames == {"Authorization", "authorization", "AUTHORIZATION"}
EventMethods == {HStr("POST"), HUndef}

EventWith(headers, method) ==
    [headersKind |-> "object", headers |-> headers, httpMethod |-> method,
     path |-> "/events"]

Events ==
    {[NoEvent EXCEPT !.headersKind = k, !.httpMethod = HStr("POST"), !.path = "/events"] :
        k \in {"undefined", "null", "number"}}
    \cup {EventWith(h, m) : h \in EventHeaders, m \in EventMethods}
    \cup {EventWith(<<<<n, a>>>> \o h, m) :
            n \in AuthorizationNames, a \in MalformedAuthorizations,
            h \in EventHeaders, m \in EventMethods}
    \cup {EventWith(<<<<n, SenderAuthorization(k, p, l, Request(h, m, "/events"))>>>> \o h, m) :
            n \in AuthorizationNames, k \in Signers, p \in DeclaredPairs,
            l \in DeclaredLists, h \in EventHeaders, m \in EventMethods}
    \cup {EventWith(<<<<"Authorization", HNum(5)>>,
                      <<"authorization", SenderAuthorization(k, <<"", "">>, l, Request(h, m, "/events"))>>>>
                    \o h, m) :
            k \in Signers, l \in DeclaredLists, h \in EventHeaders, m \in EventMethods}

InitVerify ==
    /\ \E raw \in RawOptions :
          /\ Construct(raw).ok
          /\ constructed = Constructed(raw)
          /\ options = Construct(raw).options
    /\ settled = {}
    /\ now = 0
    /\ ncalls = 0
    /\ lastCall = NoCall
    /\ inflight = {}
    /\ network = <<>>
    /\ rejected = {}
    /\ event \in Events
    /\ verdict = NoVerdict

\* checkKnotEventSignature is called on the event
CheckEvent ==
    /\ ~verdict.done
    /\ verdict' = [done |-> TRUE, of |-> 0, tamper |-> "",
                   out |-> checkKnotEventSignature(event, options)]
    /\ UNCHANGED <<options, now, ncalls, lastCall, inflight, network, rejected, event, constructed, settled>>

NextVerify == CheckEvent

SpecVerify == InitVerify /\ [][NextVerify]_vars

---------------------------------------------------------------------------
(* Calls in flight together: a call is made before earlier ones are sent *)

Concurrently(op, args, r) == ncalls < MaxConcurrent /\ Issue(op, args, r)

StartPingStation ==
    Concurrently("pingStation", <<Num(1)>>, pingStation(options, Num(1)))

StartChangeStationLabel ==
    \E label \in {StrT(<<"dock">>), StrT(<<"caf", EAcute>>)} :
        Concurrently("changeStationLabel", <<Num(1), label>>,
                     changeStationLabel(options, Num(1), label))

StartGetDisabledStations ==
    Concurrently("getDisabledStations", <<>>, getDisabledStations(options))

NextConcurrent ==
    \/ StartPingStation
    \/ StartChangeStationLabel
    \/ StartGetDisabledStations
    \/ Intercept
    \/ Dispatch
    \/ Tick

\* the client with several calls in flight, in every interleaving
SpecConcurrent == Init /\ [][NextConcurrent]_vars

---------------------------------------------------------------------------
(* Validation of arguments: one call of a method on a new client *)

\* strings of 50 and of 51 characters
FiftyChars == <<"aaaaaaaaaaaaaaaaaaaaaaaaaaaaaaaaaaaaaaaaaaaaaaaaaa">>
FiftyOneChars == FiftyChars \o <<"b">>

LabelValues ==
    {StrT(<<>>), StrT(<<"dock">>), StrT(FiftyChars), StrT(FiftyOneChars), Num(5), Undef}
LabelIds == {Num(1), Num(0), Frac15}
LockIds == {Num(0), Num(1), Num(-1), Frac15, NaN}
LowSpeedLimits == {Undef, Num(5), Num(6), Num(30), Num(31), Frac15, NaN, StrT(<<"10">>)}
OtherSpeedLimits == {Undef, Num(6), Num(30), Num(31)}
Switches == {Undef, Bool(TRUE), StrT(<<"yes">>)}

OneCall(op, args, r) == ncalls = 0 /\ Call(op, args, r)

TryChangeStationLabel ==
    \E id \in LabelIds, label \in LabelValues :
        OneCall("changeStationLabel", <<id, label>>, changeStationLabel(options, id, label))

TryChangeStationLabelAndGroup ==
    \E id \in LabelIds, label \in LabelValues, group \in LabelValues :
        OneCall("changeStationLabelAndGroup", <<id, label, group>>,
                changeStationLabelAndGroup(options, id, label, group))

TryChangeVehicleLabel ==
    \E id \in LabelIds, label \in LabelValues :
        OneCall("changeVehicleLabel", <<id, label>>, changeVehicleLabel(options, id, label))

TryChangeVehicleLabelAndGroup ==
    \E id \in LabelIds, label \in LabelValues, group \in LabelValues :
        OneCall("changeVehicleLabelAndGroup", <<id, label, group>>,
                changeVehicleLabelAndGroup(options, id, label, group))

TryConfigureVehicle ==
    \E id \in LabelIds, low \in LowSpeedLimits, medium \in OtherSpeedLimits,
       high \in OtherSpeedLimits, cruise \in Switches, button \in Switches :
        OneCall("configureVehicle", <<id, low, medium, high, cruise, button>>,
                configureVehicle(options, id, <<low, medium, high, cruise, button>>))

TryLockVehicle ==
    \E id \in ResourceIds, lock \in LockIds :
        OneCall("lockVehicle", <<id, lock>>, lockVehicle(options, id, lock))

TryUnlockVehicle ==
    \E id \in ResourceIds, unlock \in LockIds, flag \in Flags :
        OneCall("unlockVehicle", <<id, unlock, flag>>, unlockVehicle(options, id, unlock, flag))

TryUnlockSpot ==
    \E id \in ResourceIds, spot \in TrackingIds, unlock \in LockIds, flag \in Flags :
        OneCall("unlockSpot", <<id, spot, unlock, flag>>,
                unlockSpot(options, id, spot, unlock, flag))

NextValidate ==
    \/ TryChangeStationLabel
    \/ TryChangeStationLabelAndGroup
    \/ TryChangeVehicleLabel
    \/ TryChangeVehicleLabelAndGroup
    \/ TryConfigureVehicle
    \/ TryLockVehicle
    \/ TryUnlockVehicle
    \/ TryUnlockSpot
    \/ Intercept
    \/ Dispatch

\* one call on a new client, followed to its dispatch
SpecValidate == Init /\ [][NextValidate]_vars

---------------------------------------------------------------------------
(* Construction: new KnotSVaaS(raw) as a function of its argument *)

InitConstruct ==
    /\ \E raw \in ConstructorArguments : constructed = NotConstructed(raw)
    /\ options = NoOptions
    /\ now = 0
    /\ ncalls = 0
    /\ lastCall = NoCall
    /\ inflight = {}
    /\ network = <<>>
    /\ rejected = {}
    /\ event = NoEvent
    /\ verdict = NoVerdict
    /\ settled = {}

\* the constructor runs: it throws, or #options holds what it stored
New ==
    /\ ~constructed.called
    /\ constructed' = Constructed(constructed.raw)
    /\ options' = Construct(constructed.raw).options
    /\ UNCHANGED <<now, ncalls, lastCall, inflight, network, rejected, event, verdict, settled>>

NextConstruct == New

SpecConstruct == InitConstruct /\ [][NextConstruct]_vars

---------------------------------------------------------------------------
(* Properties *)

Sent == {network[i] : i \in 1..Len(network)}

\* the client's public key is the one of its private key
KeysMatch ==
    /\ PrivateKeyName(Flat(options.privateKey.s)) # ""
    /\ PublicKeyName(Flat(options.knotPublicKey.s)) = PrivateKeyName(Flat(options.privateKey.s))

\* the request the last verification was about, and whether it verifies as sent
Checked == CHOOSE r \in Sent : r.call = verdict.of
VerifiesAsSent == checkKnotEventSignature(Received(Checked), options).result

\* C1: a request the client sent, given as received (its headers, its
\* method, the path of its URL) to checkKnotEventSignature of a client
\* whose knotPublicKey matches the signing key, verifies.
C1_RoundTrip ==
    (verdict.done /\ verdict.of > 0 /\ verdict.tamper = "none" /\ KeysMatch)
        => verdict.out.result

\* C2: once the path, the method or the value of a signed header of a sent
\* request that verifies is changed, checkKnotEventSignature returns false.
C2_TamperDetected ==
    (verdict.done /\ verdict.of > 0 /\ verdict.tamper # "none" /\ VerifiesAsSent)
        => ~verdict.out.result

\* C2, amended: as C2, for a method changed to another method; a change of
\* the letter case of the method alone is not detected.
C2_TamperDetectedBarCase ==
    (/\ verdict.done
     /\ verdict.of > 0
     /\ verdict.tamper \in {"path", "method"} \cup SignedHeaderNames
     /\ VerifiesAsSent)
        => ~verdict.out.result

C2_Witness ==
    /\ verdict.done
    /\ verdict.of > 0
    /\ verdict.tamper = "Content-Length"
    /\ VerifiesAsSent
    /\ Checked.c.data.present
    /\ ~verdict.out.result

---------------------------------------------------------------------------

\* the first Authorization header of the event, whatever the case of its
\* name: its index, 0 when there is none
AuthorizationSpellings == {"authorization", "Authorization", "AUTHORIZATION"}
Located ==
    IF \E i \in 1..Len(event.headers) : event.headers[i][1] \in AuthorizationSpellings
    THEN CHOOSE i \in 1..Len(event.headers) :
            /\ event.headers[i][1] \in AuthorizationSpellings
            /\ \A j \in 1..(i - 1) : event.headers[j][1] \notin AuthorizationSpellings
    ELSE 0

\* the event carries an Authorization string that parses, and what it declares
Parses ==
    /\ event.headersKind = "object"
    /\ Located # 0
    /\ event.headers[Located][2].t = "string"
    /\ parseAuthorizationHeader(event.headers[Located][2]).ok
Declared == parseAuthorizationHeader(event.headers[Located][2]).c

Lacks(list, name) == \A i \in 1..Len(list) : list[i] # name

\* the signature is valid over the declared list of headers of the event
ValidOverDeclared ==
    LET v == verifyAuthorization(
                [Declared EXCEPT
                    !.algorithm = IF Declared.algorithm = "" \/ Declared.hash = ""
                                  THEN "ecdsa" ELSE @,
                    !.hash = IF Declared.algorithm = "" \/ Declared.hash = ""
                             THEN "sha256" ELSE @],
                Request(event.headers, event.httpMethod, event.path),
                Flat(options.knotPublicKey.s))
    IN  v.ok /\ v.result

\* C3: checkKnotEventSignature returns false whenever the declared header
\* list lacks x-knot-date or lacks (request-target), valid signature or not.
C3_UncoveredRejected ==
    (/\ verdict.done
     /\ Parses
     /\ \/ Lacks(Declared.headers, "x-knot-date")
        \/ Lacks(Declared.headers, "(request-target)"))
        => ~verdict.out.result

C3_Witness ==
    /\ verdict.done
    /\ Parses
    /\ Lacks(Declared.headers, "x-knot-date")
    /\ ~Lacks(Declared.headers, "(request-target)")
    /\ ValidOverDeclared
    /\ ~verdict.out.result

\* C4: checkKnotEventSignature returns for every event, and returns false
\* whenever a step of it raised an exception.
C4_NeverThrows ==
    verdict.done =>
        /\ verdict.out.returned
        /\ verdict.out.caught => ~verdict.out.result
        /\ event.headersKind \in {"undefined", "null"} => ~verdict.out.result
        /\ (/\ event.headersKind = "object"
            /\ Located # 0
            /\ event.headers[Located][2].t = "string"
            /\ ~parseAuthorizationHeader(event.headers[Located][2]).ok)
               => ~verdict.out.result

C4_Witness ==
    /\ verdict.done
    /\ verdict.out.returned
    /\ verdict.out.caught
    /\ verdict.out.verified
    /\ ~verdict.out.result

\* C5: the Authorization header is found whatever the case of its name;
\* when there is none, or its value is no string, the result is false and
\* neither the parser nor the verification is called.
C5_AuthorizationLocated ==
    verdict.done =>
        /\ (Located = 0 \/ event.headers[Located][2].t # "string")
              => /\ ~verdict.out.result
                 /\ ~verdict.out.parsed
                 /\ ~verdict.out.verified
        /\ (event.headersKind = "object" /\ Located # 0
              /\ event.headers[Located][2].t = "string")
              => verdict.out.parsed

C5_Witness ==
    /\ verdict.done
    /\ Located # 0
    /\ event.headers[Located][1] = "AUTHORIZATION"
    /\ event.headers[Located][2].t = "string"
    /\ verdict.out.parsed
    /\ verdict.out.result

---------------------------------------------------------------------------

UnlockIdentifiers(r) ==
    CASE r.op = "unlockSpot" -> {r.args[1], r.args[2], r.args[3]}
      [] r.op = "unlockVehicle" -> {r.args[1], r.args[2]}
      [] OTHER -> {}

ZeroOrNotInteger(v) == v.t # "int" \/ v.n = 0

\* C6: unlockSpot and unlockVehicle called with an identifier that is zero
\* or not an integer raise a validation error, and no request of such a
\* call is handed to the transport.
C6_BadIdentifierRejected ==
    /\ (\E v \in UnlockIdentifiers(lastCall) : ZeroOrNotInteger(v)) => lastCall.thrown
    /\ \A r \in inflight \cup Sent : \A v \in UnlockIdentifiers(r) : ~ZeroOrNotInteger(v)

\* C7: the Content-Length of every request sent is the number of bytes of
\* the UTF-8 encoding of its JSON body, "0" without a body.
C7_ContentLengthInBytes ==
    \A r \in Sent :
        GetHeader(r.c.headers, "Content-Length") =
            HStr(ToString(IF r.c.data.present
                          THEN Utf8ByteLength(JSONstringify(r.c.data)) ELSE 0))

\* C8: every request sent carries X-Knot-Date (the clock as a string),
\* X-Api-Key (the keyId), Content-Type application/json, Content-Length
\* and Authorization, whatever headers the caller configured.
C8_HeadersPresent ==
    \A r \in Sent :
        /\ GetHeader(r.c.headers, "X-Knot-Date") \in {HStr(ToString(t)) : t \in 0..MaxClock}
        /\ GetHeader(r.c.headers, "X-Api-Key") = HStr(Flat(options.keyId.s))
        /\ GetHeader(r.c.headers, "Content-Type") = HStr("application/json")
        /\ HasKey(r.c.headers, "Content-Length")
        /\ GetHeader(r.c.headers, "Content-Length").t = "string"
        /\ HasKey(r.c.headers, "Authorization")
        /\ GetHeader(r.c.headers, "Authorization").s = "Signature"

C8_Witness ==
    \E r \in Sent :
        /\ GetHeader(options.axiosRequestConfig.headers, "Content-Type") = HStr("text/plain")
        /\ GetHeader(options.axiosRequestConfig.headers, "Authorization").s # "Signature"
        /\ GetHeader(r.c.headers, "Content-Type") = HStr("application/json")
        /\ r.c.data.present

\* the signing string of the four signed entries of a request, in order
FourLines(r) ==
    "x-knot-date: " \o GetHeader(r.c.headers, "X-Knot-Date").s
    \o "\n(request-target): " \o toLowerCase(r.c.method)
    \o " " \o SignedPath(NewURL(r.c.url))
    \o "\ncontent-type: " \o GetHeader(r.c.headers, "Content-Type").s
    \o "\ncontent-length: " \o GetHeader(r.c.headers, "Content-Length").s

\* C9: the signature of every request sent is over X-Knot-Date,
\* (request-target), Content-Type, Content-Length, in that order, and over
\* nothing else: not over X-Api-Key.
C9_SignedEntries ==
    \A r \in Sent :
        LET w == GetHeader(r.c.headers, "Authorization").w
        IN  /\ w # <<>>
            /\ Field(w, "headers") =
                  <<"x-knot-date", "(request-target)", "content-type", "content-length">>
            /\ Field(w, "signature") =
                  <<PrivateKeyName(Flat(options.privateKey.s)), "ecdsa", "sha256", FourLines(r)>>

C9_Witness ==
    \E r \in Sent :
        /\ r.op = "unlockVehicle"
        /\ r.c.data.present
        /\ HasKey(r.c.headers, "X-Api-Key")
        /\ GetHeader(r.c.headers, "Authorization").w # <<>>

\* signing this request fails: its URL does not parse or the key is no key
SigningFails(c) ==
    \/ (Len(c.url) >= 1 /\ c.url[1] = "abc")
    \/ options.privateKey.s = <<"not-a-key">>

\* C10: a call whose signature cannot be generated is rejected with an
\* SVaaSError and its request is never sent; every request sent carries
\* the Authorization the signer generated for it.
C10_SigningFailureAborts ==
    /\ \A x \in rejected :
          /\ x.error = "SVaaSError"
          /\ \A r \in inflight \cup Sent : r.call # x.call
    /\ \A r \in inflight \cup Sent :
          r.signed =>
             /\ ~SigningFails(r.c)
             /\ HasKey(r.c.headers, "Authorization")
             /\ GetHeader(r.c.headers, "Authorization").w # <<>>
    /\ \A r \in inflight : SigningFails(r.c) => ~r.signed
    /\ (lastCall.id > 0 /\ ~lastCall.thrown) =>
          \E x \in inflight \cup Sent \cup rejected : x.call = lastCall.id

C10_Witness ==
    /\ \E x \in rejected : x.op = "unlockSpot" /\ x.error = "SVaaSError"
    /\ Sent = {}
    /\ inflight = {}

---------------------------------------------------------------------------

\* an endpoint option the claim calls invalid
UnusableEndpoint(endpoint) ==
    /\ endpoint.t # "undefined"
    /\ \/ endpoint.t # "string"
       \/ StringLength(endpoint.s) < 3
       \/ ~NewURL(endpoint.s).ok

InvalidOptions(raw) ==
    \/ raw.kind # "object"
    \/ UnusableEndpoint(raw.stationsEndpoint)
    \/ UnusableEndpoint(raw.vehiclesEndpoint)
    \/ raw.keyId.t # "string"
    \/ raw.privateKey.t # "string"
    \/ raw.knotPublicKey.t # "string"

\* C11: new KnotSVaaS fails for every invalid option set: an endpoint that
\* is not a string, is shorter than 3 characters or is not a usable URL, or
\* a keyId, privateKey or knotPublicKey that is missing or not a string;
\* after the failure there is no client.
C11_InvalidOptionsRejected ==
    (constructed.called /\ InvalidOptions(constructed.raw))
        => (~constructed.ok /\ constructed.error # "" /\ options = NoOptions)

---------------------------------------------------------------------------

TakesId(op) ==
    op \in {"pingStation", "changeStationLabel", "getStationInformation",
            "getVehicleInformation"}

\* an id the validation of an id refuses
RefusedId(v) == v.t = "float" \/ (v.t = "int" /\ v.n < 0)

\* C12: an argument-validation failure, an invalid station or vehicle id
\* included, is a synchronous throw of the method call and never a
\* rejected promise, for the async read methods too.
C12_ValidationThrows ==
    /\ (lastCall.id > 0 /\ TakesId(lastCall.op) /\ RefusedId(lastCall.args[1]))
          => lastCall.thrown
    /\ \A x \in rejected : x.stage # "validation"

\* C13: every failed request outcome (transport failure, status other
\* than 2xx, envelope whose code is missing or not the success value)
\* reaches the caller as an SVaaSRequestError carrying the URL and the
\* payload of the request.
C13_FailuresTyped ==
    \A x \in settled :
        x.response # "success" =>
            /\ x.outcome.state = "rejected"
            /\ x.outcome.error = "SVaaSRequestError"
            /\ \E r \in Sent : r.call = x.call /\ x.outcome.url = r.c.url
            /\ x.outcome.payload # ""

\* the dispatches of call k
DispatchesOf(k) == {i \in 1..Len(network) : network[i].call = k}

\* C17: no retries: every call causes at most one dispatch whatever its
\* outcome, and after n calls at most n requests were dispatched.
C17_AtMostOneDispatch ==
    /\ Len(network) <= ncalls
    /\ \A k \in 1..ncalls : Cardinality(DispatchesOf(k)) <= 1
    /\ \A x \in rejected : DispatchesOf(x.call) = {}
    /\ \A k \in 1..ncalls :
          Cardinality({r \in inflight : r.call = k}) + Cardinality(DispatchesOf(k)) <= 1

C17_Witness ==
    /\ ncalls = MaxCalls
    /\ \E x \in settled :
          /\ x.outcome.state = "rejected"
          /\ x.response = "transport"
          /\ Cardinality(DispatchesOf(x.call)) = 1
    /\ inflight = {}

---------------------------------------------------------------------------

LabelOps ==
    {"changeStationLabel", "changeStationLabelAndGroup", "changeVehicleLabel",
     "changeVehicleLabelAndGroup"}

\* the label, and the group if the operation takes one
LabelArguments(call) == {call.args[i] : i \in 2..Len(call.args)}

TooLongOrNotString(v) == v.t # "string" \/ StringLength(v.s) > 50

\* C14: every label-changing operation refuses, before any dispatch, a
\* label or group that is not a string or is longer than 50 characters,
\* and accepts strings of length 0 to 50.
C14_LabelsValidated ==
    /\ (lastCall.op \in LabelOps /\ \E v \in LabelArguments(lastCall) : TooLongOrNotString(v))
          => (lastCall.thrown /\ inflight = {} /\ network = <<>>)
    /\ (/\ lastCall.op \in LabelOps
        /\ lastCall.args[1] = Num(1)
        /\ \A v \in LabelArguments(lastCall) : ~TooLongOrNotString(v))
          => ~lastCall.thrown

---------------------------------------------------------------------------

IdOk(v) == v.t = "int" /\ v.n >= 1
SpeedOk(v) == v.t = "undefined" \/ (v.t = "int" /\ v.n >= 6 /\ v.n <= 30)
SwitchOk(v) == v.t \in {"undefined", "boolean"}

ConfigOk(call) ==
    /\ IdOk(call.args[1])
    /\ \A i \in 2..4 : SpeedOk(call.args[i])
    /\ \A i \in 5..6 : SwitchOk(call.args[i])

\* C15: configureVehicle hands a request to the transport if and only if
\* each speed limit is undefined or an integer in [6, 30], both switches
\* are undefined or boolean and the vehicle id is valid; otherwise it
\* raises SVaaSError and nothing is dispatched.
C15_ConfigureValidated ==
    lastCall.op = "configureVehicle" =>
        /\ ConfigOk(lastCall) => ~lastCall.thrown
        /\ ~ConfigOk(lastCall) =>
              /\ lastCall.thrown
              /\ lastCall.error = "SVaaSError"
              /\ inflight = {} /\ network = <<>>

\* the identifier that tracks the request is refused
TrackingRefused(call, least) ==
    LET v == IF call.op = "unlockSpot" THEN call.args[3] ELSE call.args[2]
    IN  v.t # "int" \/ v.n < least

\* the arguments other than the tracking identifier are valid
OthersValid(call) ==
    CASE call.op = "lockVehicle" -> IdOk(call.args[1])
      [] call.op = "unlockVehicle" -> IdOk(call.args[1]) /\ SwitchOk(call.args[3])
      [] call.op = "unlockSpot" ->
            IdOk(call.args[1]) /\ IdOk(call.args[2]) /\ SwitchOk(call.args[4])
      [] OTHER -> FALSE

\* C16: lockVehicle raises a validation error exactly when lockId is not
\* an integer or is negative; unlockVehicle and unlockSpot raise exactly
\* when unlockId is not an integer or is less than 1.
C16_LockIdZero ==
    /\ lastCall.op = "lockVehicle" => (lastCall.thrown <=> TrackingRefused(lastCall, 0))
    /\ lastCall.op \in {"unlockVehicle", "unlockSpot"} =>
          (lastCall.thrown <=> TrackingRefused(lastCall, 1))

\* C16, amended: the same, for calls whose other arguments are valid.
C16_LockIdZeroOthersValid ==
    /\ (lastCall.op = "lockVehicle" /\ OthersValid(lastCall)) =>
          (lastCall.thrown <=> TrackingRefused(lastCall, 0))
    /\ (lastCall.op \in {"unlockVehicle", "unlockSpot"} /\ OthersValid(lastCall)) =>
          (lastCall.thrown <=> TrackingRefused(lastCall, 1))

C16_Witness ==
    /\ lastCall.op = "lockVehicle"
    /\ lastCall.args = <<Num(1), Num(0)>>
    /\ ~lastCall.thrown
    /\ \E r \in Sent : r.op = "lockVehicle" /\ r.c.data = Obj(<< <<"lock", Num(0)>> >>)

---------------------------------------------------------------------------

\* C18: API calls and verifications leave the stored options (endpoints,
\* keys, keyId and the axiosRequestConfig given at construction) equal to
\* their values right after construction.
C18_OptionsUnchanged == options = constructed.options

\* what the call that issued request r asked for
Asked(r) ==
    CASE r.op = "pingStation" -> pingStation(constructed.options, r.args[1])
      [] r.op = "changeStationLabel" ->
            changeStationLabel(constructed.options, r.args[1], r.args[2])
      [] OTHER -> getDisabledStations(constructed.options)

\* C19: with calls in flight together, in every interleaving, each
\* request carries the method, URL and body of the call that issued it
\* and an Authorization computed over that request's own method, path and
\* stamped headers.
C19_CallsIsolated ==
    \A r \in inflight \cup Sent :
        /\ r.c.method = Asked(r).method
        /\ r.c.url = Asked(r).url
        /\ r.c.data = Asked(r).data
        /\ r.signed =>
              /\ GetHeader(r.c.headers, "Content-Length") = HStr(ContentLength(Asked(r).data))
              /\ GetHeader(r.c.headers, "Authorization").w # <<>> =>
                    Field(GetHeader(r.c.headers, "Authorization").w, "signature")[4]
                        = FourLines(r)

C19_Witness ==
    /\ Len(network) = 2
    /\ network[1].call = 2
    /\ network[2].call = 1
    /\ network[1].op = "pingStation"
    /\ network[2].op = "changeStationLabel"
    /\ network[1].c.url # network[2].c.url
    /\ GetHeader(network[1].c.headers, "X-Knot-Date")
          # GetHeader(network[2].c.headers, "X-Knot-Date")

---------------------------------------------------------------------------

\* the event reaches the cryptographic check
ReachesVerification ==
    /\ Parses
    /\ ~Lacks(Declared.headers, "x-knot-date")
    /\ ~Lacks(Declared.headers, "(request-target)")

\* C20: when the parsed Authorization components lack algorithm and hash,
\* the verification is made with ecdsa and sha256; when they declare both,
\* it is made with the declared pair unchanged.
C20_AlgorithmDefaults ==
    (verdict.done /\ ReachesVerification) =>
        /\ verdict.out.verified
        /\ (Declared.algorithm = "" /\ Declared.hash = "") =>
              (verdict.out.algorithm = "ecdsa" /\ verdict.out.hash = "sha256")
        /\ (Declared.algorithm # "" /\ Declared.hash # "") =>
              (verdict.out.algorithm = Declared.algorithm /\ verdict.out.hash = Declared.hash)

C20_Witness ==
    /\ verdict.done
    /\ ReachesVerification
    /\ Declared.algorithm = "" /\ Declared.hash = ""
    /\ verdict.out.algorithm = "ecdsa" /\ verdict.out.hash = "sha256"
    /\ verdict.out.result

C20_WitnessDeclared ==
    /\ verdict.done
    /\ ReachesVerification
    /\ Declared.algorithm = "rsa" /\ Declared.hash = "sha512"
    /\ verdict.out.algorithm = "rsa" /\ verdict.out.hash = "sha512"
    /\ verdict.out.result

---------------------------------------------------------------------------

StationOps == {"pingStation", "unlockSpot", "changeStationLabel", "getDisabledStations"}
VehicleOps == {"unlockVehicle"}
CollectionOps == {"getDisabledStations"}

ActionOf(op) ==
    CASE op = "pingStation" -> "ping"
      [] op \in {"unlockSpot", "unlockVehicle"} -> "unlock"
      [] op = "changeStationLabel" -> "label"
      [] OTHER -> "disabled"

\* the endpoint of the service an operation belongs to: the one given at
\* construction, otherwise the fixed host of the service
EndpointOf(op) ==
    IF op \in StationOps
    THEN IF constructed.options.stationsEndpoint.t = "string"
         THEN constructed.options.stationsEndpoint.s
         ELSE <<"https://", "staas.knotcity.io">>
    ELSE IF constructed.options.vehiclesEndpoint.t = "string"
         THEN constructed.options.vehiclesEndpoint.s
         ELSE <<"https://", "vaas.knotcity.io">>

\* C21: a station method called with resource id n is sent to
\* <stationsEndpoint>/v1/n/<action>, a vehicle method to
\* <vehiclesEndpoint>/v1/n/<action>, a collection-level call to
\* <endpoint>/v1/<action>; the endpoint is the one given at construction,
\* otherwise the fixed host of the service, never that of the other service.
C21_UrlConstruction ==
    \A r \in Sent :
        r.op \in StationOps \cup VehicleOps =>
            r.c.url = EndpointOf(r.op) \o <<"/v1">>
                      \o (IF r.op \in CollectionOps THEN <<>>
                          ELSE <<"/" \o Flat(r.args[1].s)>>)
                      \o <<"/" \o ActionOf(r.op)>>

---------------------------------------------------------------------------
(* Response bodies, and the read methods after the response arrived *)

\* the values of an activation_date member
DateString(s) == [t |-> "string", v |-> s]
DateNull == [t |-> "null", v |-> ""]
DateUndef == [t |-> "undefined", v |-> ""]
DateOf(v) == [t |-> "date", v |-> v]

IsoDate == "2024-05-01T10:00:00.000Z"

\* new Date(x)
NewDate(x) ==
    CASE x.t = "string" /\ x.v = IsoDate -> DateOf(IsoDate)
      [] x.t = "null" -> DateOf("1970-01-01T00:00:00.000Z")
      [] x.t = "date" -> x
      [] OTHER -> DateOf("Invalid Date")

\* the truthiness of an activation_date member
DateTruthy(x) == x.t = "date" \/ (x.t = "string" /\ x.v # "")

\* the data member of an envelope: missing, one object, or a list of objects
NoPayload == [t |-> "undefined", date |-> DateUndef, items |-> <<>>]
One(date) == [t |-> "object", date |-> date, items |-> <<>>]
List(dates) == [t |-> "list", date |-> DateUndef, items |-> dates]

\* the body of a 2xx response as axios hands it over: an object whose code
\* is the success value, another value or missing, the empty string, or null
Body(shape, code, data) == [shape |-> shape, code |-> code, data |-> data]

Bodies ==
    {Body("object", "undefined", NoPayload),
     Body("empty", "undefined", NoPayload),
     Body("null", "undefined", NoPayload),
     Body("object", "FAILURE", NoPayload),
     Body("object", "FAILURE", One(DateString(IsoDate))),
     Body("object", "FAILURE", List(<<DateString(IsoDate)>>)),
     Body("object", "SUCCESS", NoPayload),
     Body("object", "SUCCESS", One(DateString(IsoDate))),
     Body("object", "SUCCESS", One(DateNull)),
     Body("object", "SUCCESS", List(<<DateString(IsoDate), DateNull>>))}

\* JSON.stringify(results.data) of a body that has no code
BodyJson(body) == IF body.shape = "empty" THEN "\"\"" ELSE "{}"

Rejection(error, message) ==
    [state |-> "rejected", error |-> error, message |-> message,
     value |-> Body("null", "undefined", NoPayload)]

\* makeRequest after await this.#ax(...), given the body of a 2xx response
makeRequestResults(c, body) ==
    CASE body.shape = "null" -> Rejection("TypeError", <<>>)
      [] body.code = "undefined" ->
            Rejection("SVaaSRequestError",
                      <<"[Knot SVaaS SDK] ", "Request return an error: ", BodyJson(body), ": ">>
                      \o c.url \o <<" ", TemplateString(c.data)>>)
      [] OTHER -> [state |-> "resolved", error |-> "", message |-> <<>>, value |-> body]

\* getStationInformation after the await of makeStationRequest
StationInformationResults(requestResults) ==
    IF requestResults.state = "resolved" /\ requestResults.value.code = "SUCCESS"
    THEN IF requestResults.value.data.t = "undefined"
         THEN Rejection("TypeError", <<>>)
         ELSE IF DateTruthy(requestResults.value.data.date)
              THEN [requestResults EXCEPT !.value.data.date = NewDate(@)]
              ELSE requestResults
    ELSE requestResults

\* variant: the list is converted whatever the code of the envelope
EnabledStationsResultsAnyCode(requestResults) ==
    IF requestResults.state = "resolved"
    THEN IF requestResults.value.data.t # "list"
         THEN Rejection("TypeError", <<>>)
         ELSE [requestResults EXCEPT
                  !.value.data.items = [i \in DOMAIN @ |-> NewDate(@[i])]]
    ELSE requestResults

\* getEnabledStations after the await of makeStationRequest
EnabledStationsResults(requestResults) ==
    IF requestResults.state = "resolved" /\ requestResults.value.code = "SUCCESS"
    THEN IF requestResults.value.data.t # "list"
         THEN Rejection("TypeError", <<>>)
         ELSE [requestResults EXCEPT
                  !.value.data.items = [i \in DOMAIN @ |-> NewDate(@[i])]]
    ELSE requestResults

\* getVehicleInformation after the await of makeVehicleRequest
VehicleInformationResults(requestResults) ==
    IF requestResults.state = "resolved" /\ requestResults.value.code = "SUCCESS"
    THEN IF requestResults.value.data.t = "undefined"
         THEN Rejection("TypeError", <<>>)
         ELSE IF DateTruthy(requestResults.value.data.date)
              THEN [requestResults EXCEPT !.value.data.date = NewDate(@)]
              ELSE requestResults
    ELSE requestResults

\* getEnabledVehicles after the await of makeVehicleRequest
EnabledVehiclesResults(requestResults) ==
    IF requestResults.state = "resolved" /\ requestResults.value.code = "SUCCESS"
    THEN IF requestResults.value.data.t # "list"
         THEN Rejection("TypeError", <<>>)
         ELSE [requestResults EXCEPT
                  !.value.data.items = [i \in DOMAIN @ |-> NewDate(@[i])]]
    ELSE requestResults

\* how the promise of a call settles once makeRequest has settled
Results(op, requestResults) ==
    CASE op = "getStationInformation" -> StationInformationResults(requestResults)
      [] op = "getEnabledStations" -> EnabledStationsResults(requestResults)
      [] op = "getVehicleInformation" -> VehicleInformationResults(requestResults)
      [] op = "getEnabledVehicles" -> EnabledVehiclesResults(requestResults)
      [] OTHER -> requestResults

\* a 2xx response to a sent request arrives with its body, and the promise
\* of the call settles
Answer ==
    \E r \in Unsettled, body \in Bodies :
        /\ settled' = settled \cup
              {[call |-> r.call, op |-> r.op, url |-> r.c.url, response |-> body,
                outcome |-> Results(r.op, makeRequestResults(r.c, body))]}
        /\ UNCHANGED <<options, now, ncalls, lastCall, inflight, network, rejected, event,
                       verdict, constructed>>

NextRead ==
    \/ CallGetStationInformation
    \/ CallGetEnabledStations
    \/ CallGetVehicleInformation
    \/ CallGetEnabledVehicles
    \/ CallGetDisabledStations
    \/ Intercept
    \/ Dispatch
    \/ Answer

\* the client, its calls followed to the body of the response
SpecRead == Init /\ [][NextRead]_vars

InformationOps == {"getStationInformation", "getVehicleInformation"}
EnabledOps == {"getEnabledStations", "getEnabledVehicles"}

\* the envelope with the dates the read method of op puts in it
Converted(op, body) ==
    IF op \in InformationOps
    THEN IF DateTruthy(body.data.date)
         THEN [body EXCEPT !.data.date = DateOf(@.v)]
         ELSE body
    ELSE [body EXCEPT !.data.items =
             [i \in DOMAIN @ |-> IF @[i].t = "string" THEN DateOf(@[i].v)
                                 ELSE DateOf("1970-01-01T00:00:00.000Z")]]

WellFormed(op, body) ==
    IF op \in InformationOps THEN body.data.t = "object" ELSE body.data.t = "list"

\* C22: the read methods convert dates only on success.  For a success
\* envelope, getStationInformation and getVehicleInformation return it with a
\* non-empty data.activation_date replaced by a date, getEnabledStations and
\* getEnabledVehicles with the activation_date of every element of the list
\* replaced by a date; an envelope whose code is another value is returned
\* as it arrived.
C22_DatesOnlyOnSuccess ==
    \A x \in settled :
        (x.op \in InformationOps \cup EnabledOps /\ x.response.shape = "object") =>
            /\ (x.response.code = "SUCCESS" /\ WellFormed(x.op, x.response)) =>
                  /\ x.outcome.state = "resolved"
                  /\ x.outcome.value = Converted(x.op, x.response)
                  /\ x.op \in EnabledOps =>
                        \A i \in DOMAIN x.outcome.value.data.items :
                            x.outcome.value.data.items[i].t = "date"
                  /\ (x.op \in InformationOps /\ DateTruthy(x.response.data.date)) =>
                        x.outcome.value.data.date.t = "date"
            /\ x.response.code = "FAILURE" =>
                  /\ x.outcome.state = "resolved"
                  /\ x.outcome.value = x.response

C22_Witness ==
    \E x \in settled :
        /\ x.op = "getEnabledVehicles" /\ x.response.code = "SUCCESS"
        /\ x.outcome.state = "resolved"
        /\ x.outcome.value.data.items =
              <<DateOf(IsoDate), DateOf("1970-01-01T00:00:00.000Z")>>

---------------------------------------------------------------------------

\* the string the signer signs when it is given the request as it stands
SignedOver(c) ==
    SigningLines(SignedHeaders,
                 [headers |-> c.headers,
                  method |-> HStr(IF c.method # "" THEN c.method ELSE "POST"),
                  path |-> SignedPath(NewURL(c.url))])

\* the signing string inside the Authorization header of a request
SignedString(c) == Field(GetHeader(c.headers, "Authorization").w, "signature")[4]

\* C23: X-Knot-Date, Content-Type and Content-Length are assigned before
\* the Authorization is computed and nothing signed changes afterwards: from
\* the moment a request is signed until it is sent, and once sent, the
\* values under its signature are the values of its own headers, which are
\* the stamped ones and not those the caller configured.
C23_SignedAsDispatched ==
    \A r \in inflight \cup Sent :
        r.signed =>
            /\ SignedOver(r.c).ok
            /\ SignedString(r.c) = SignedOver(r.c).s
            /\ GetHeader(r.c.headers, "Content-Type") = HStr("application/json")
            /\ GetHeader(r.c.headers, "Content-Length") = HStr(ContentLength(r.c.data))
            /\ \A q \in Sent : q.call = r.call => q = r

C23_Witness ==
    \E r \in Sent :
        /\ r.signed
        /\ r.c.data.present
        /\ GetHeader(constructed.options.axiosRequestConfig.headers, "Content-Type")
              = HStr("text/plain")
        /\ SignedString(r.c) = SignedOver(r.c).s
        /\ GetHeader(r.c.headers, "Content-Length") # HStr("0")

\* the string a signer signs when it is given the request that is sent:
\* its method and the part of its URL that follows the origin
SignedOverTheWire(c) ==
    SigningLines(SignedHeaders,
                 [headers |-> c.headers,
                  method |-> HStr(IF c.method # "" THEN c.method ELSE "POST"),
                  path |-> PathOnTheWire(c.url)])

\* C24: the (request-target) under the signature of a request sent is the
\* method of the request, POST when it has none, and the part of the URL it
\* is sent to that follows the origin, base path of the endpoint included,
\* '/' only when that part is empty.
C24_RequestTargetAsSent ==
    \A r \in Sent : SignedString(r.c) = SignedOverTheWire(r.c).s

\* C24 for the endpoints without userinfo
C24_BasePathSigned ==
    \E r \in Sent :
        /\ r.c.url = <<"https://", "proxy.test", "/base", "/v1", "/1", "/ping">>
        /\ SignedString(r.c) = SignedOverTheWire(r.c).s

---------------------------------------------------------------------------

\* text contains part
Contains(text, part) ==
    \E i \in 0..(Len(text) - Len(part)) : SubSeq(text, i + 1, i + Len(part)) = part

HasCode(body) == body.shape = "object" /\ body.code # "undefined"

\* C25: a call whose response body has no code field (an object without
\* code, an empty body, null) is rejected with an SVaaSRequestError whose
\* message contains the URL of the request; a call whose response body has
\* a code field, success or not, resolves to it and no error is raised.
C25_MissingCodeRejected ==
    \A x \in settled :
        IF HasCode(x.response)
        THEN x.outcome.state = "resolved"
        ELSE /\ x.outcome.state = "rejected"
             /\ x.outcome.error = "SVaaSRequestError"
             /\ Contains(x.outcome.message, x.url)

\* C25 for the bodies that are not null, on a method that returns the
\* envelope as it is
C25_ObjectAndEmptyRejected ==
    \A x \in settled :
        (x.op = "getDisabledStations" /\ x.response.shape # "null") =>
            IF HasCode(x.response)
            THEN x.outcome.state = "resolved" /\ x.outcome.value = x.response
            ELSE /\ x.outcome.state = "rejected"
                 /\ x.outcome.error = "SVaaSRequestError"
                 /\ Contains(x.outcome.message, x.url)

---------------------------------------------------------------------------
(* The station methods that take a spot *)

scanStationSpot(opts, stationId, spotId) ==
    makeStationRequest(opts, "POST", "v1", "refresh", stationId,
        Obj(<< <<"spot", spotId>> >>))

confirmLockSpot(opts, stationId, spotId, accepted) ==
    makeStationRequest(opts, "POST", "v1", "lock-response", stationId,
        Obj(<< <<"spot", spotId>>, <<"accepted", accepted>> >>))

badgeReaderFeedback(opts, stationId, status, spotId) ==
    makeStationRequest(opts, "POST", "v1", "badge", stationId,
        Obj(<< <<"status", status>>, <<"spot", spotId>> >>))

StationIds == {Num(1), Num(2)}
SpotIds == {Num(1), Num(0), Num(-1), Frac15, NaN}
\* ConfirmLockAnswer.ACCEPT and DENY, BadgeReaderStatus.LINK and FAILED
Answers == {Num(0), Num(2)}

TryScanStationSpot ==
    \E id \in StationIds, spot \in SpotIds :
        OneCall("scanStationSpot", <<id, spot>>, scanStationSpot(options, id, spot))

TryConfirmLockSpot ==
    \E id \in StationIds, spot \in SpotIds, accepted \in Answers :
        OneCall("confirmLockSpot", <<id, spot, accepted>>,
                confirmLockSpot(options, id, spot, accepted))

TryBadgeReaderFeedback ==
    \E id \in StationIds, status \in Answers, spot \in SpotIds \cup {Undef} :
        OneCall("badgeReaderFeedback", <<id, status, spot>>,
                badgeReaderFeedback(options, id, status, spot))

NextSpot ==
    \/ TryUnlockSpot
    \/ TryScanStationSpot
    \/ TryConfirmLockSpot
    \/ TryBadgeReaderFeedback
    \/ Intercept
    \/ Dispatch

\* one call of a method that takes a spot, followed to its dispatch
SpecSpot == Init /\ [][NextSpot]_vars

SpotOps == {"unlockSpot", "scanStationSpot", "confirmLockSpot", "badgeReaderFeedback"}

\* the spot id given to a call
SpotOf(r) == IF r.op = "badgeReaderFeedback" THEN r.args[3] ELSE r.args[2]

\* a spot id that is given and is not an integer from 1
BadSpot(v) == v.t # "undefined" /\ ~(v.t = "int" /\ v.n >= 1)

\* C26: unlockSpot, scanStationSpot, confirmLockSpot, and badgeReaderFeedback
\* when a spot is given, refuse a spot id that is not an integer from 1
\* before any request is made: the call fails and nothing of it is in
\* flight or sent.
C26_SpotIdValidated ==
    /\ (lastCall.op \in SpotOps /\ BadSpot(SpotOf(lastCall))) =>
          (lastCall.thrown \/ \E x \in rejected : x.call = lastCall.id /\ x.stage = "validation")
    /\ \A r \in inflight \cup Sent : r.op \in SpotOps => ~BadSpot(SpotOf(r))

\* C26 for unlockSpot alone
C26_UnlockSpotValidated ==
    /\ (lastCall.op = "unlockSpot" /\ BadSpot(SpotOf(lastCall))) => lastCall.thrown
    /\ \A r \in inflight \cup Sent : r.op = "unlockSpot" => ~BadSpot(SpotOf(r))

---------------------------------------------------------------------------

\* C27: when the Authorization header declares exactly one of algorithm and
\* hash, the verification is made with ecdsa and sha256, the declared field
\* replaced too; the declared pair is what the verification is made with
\* only when both fields are declared and not empty.
C27_PairDefaultsTogether ==
    (verdict.done /\ ReachesVerification) =>
        /\ ((Declared.algorithm = "") # (Declared.hash = "")) =>
              /\ verdict.out.verified
              /\ verdict.out.algorithm = "ecdsa"
              /\ verdict.out.hash = "sha256"
        /\ (verdict.out.algorithm # "ecdsa" \/ verdict.out.hash # "sha256") =>
              /\ Declared.algorithm # "" /\ Declared.hash # ""
              /\ verdict.out.algorithm = Declared.algorithm
              /\ verdict.out.hash = Declared.hash

C27_Witness ==
    /\ verdict.done
    /\ ReachesVerification
    /\ Declared.algorithm = "rsa" /\ Declared.hash = ""
    /\ verdict.out.verified
    /\ verdict.out.algorithm = "ecdsa" /\ verdict.out.hash = "sha256"

---------------------------------------------------------------------------

StoredEndpoints ==
    {e \in {options.stationsEndpoint, options.vehiclesEndpoint} : e.t = "string"}

\* C28: after a successful construction neither stored endpoint ends with
\* '/', whatever the number of slashes the given endpoint ended with, so
\* that one '/' and no more stands between the endpoint and the version in
\* every URL.
C28_NoTrailingSlash ==
    (constructed.called /\ constructed.ok) =>
        \A e \in StoredEndpoints : ~endsWithSlash(e.s)

\* C28 for the endpoints given with at most one trailing slash
C28_OneSlashStripped ==
    (/\ constructed.called /\ constructed.ok
     /\ constructed.raw.stationsEndpoint = StrT(<<"https://", "proxy.test", "/base", "/">>))
        => options.stationsEndpoint = StrT(<<"https://", "proxy.test", "/base">>)

---------------------------------------------------------------------------
(* The same event verified again and again while the client is used *)

StampedAtZero ==
    << <<"X-Knot-Date", HStr("0")>>, <<"Content-Type", HStr("application/json")>>,
       <<"Content-Length", HStr("2")>> >>

\* events stamped at time 0: signed by either sender, unsigned, and with an
\* Authorization that is not a signature
ReplayEvents ==
    {EventWith(<<<<"Authorization",
                   SenderAuthorization(k, <<"", "">>,
                       <<"x-knot-date", "(request-target)", "content-type", "content-length">>,
                       Request(StampedAtZero, HStr("POST"), "/events"))>>>>
               \o StampedAtZero, HStr("POST")) : k \in Signers}
    \cup {EventWith(StampedAtZero, HStr("POST")),
          EventWith(<<<<"Authorization", HStr("Basic dXNlcg==")>>>> \o StampedAtZero,
                    HStr("POST"))}

InitReplay ==
    /\ \E raw \in RawOptions :
          /\ Construct(raw).ok
          /\ constructed = Constructed(raw)
          /\ options = Construct(raw).options
    /\ settled = {}
    /\ now = 0
    /\ ncalls = 0
    /\ lastCall = NoCall
    /\ inflight = {}
    /\ network = <<>>
    /\ rejected = {}
    /\ event \in ReplayEvents
    /\ verdict = NoVerdict

\* checkKnotEventSignature is called on the event once more; the caller
\* keeps the result with the time and the number of calls made before it
CheckEventAgain ==
    /\ verdict' = [done |-> TRUE, of |-> 0, tamper |-> "",
                   out |-> checkKnotEventSignature(event, options)]
    /\ settled' = settled \cup
          {[call |-> 0, op |-> "checkKnotEventSignature", at |-> now, calls |-> ncalls,
            outcome |-> verdict'.out]}
    /\ UNCHANGED <<options, now, ncalls, lastCall, inflight, network, rejected, event,
                   constructed>>

\* pingStation is called while the event is being verified
PingStationBetween ==
    Call("pingStation", <<Num(1)>>, pingStation(options, Num(1)))

NextReplay ==
    \/ PingStationBetween
    \/ Intercept
    \/ Dispatch
    \/ Tick
    \/ CheckEventAgain

\* the client in use while one event is verified at different times
SpecReplay == InitReplay /\ [][NextReplay]_vars

\* C29: checkKnotEventSignature is a function of the event and of the
\* public key of the client: every verification of the same event returns
\* the same result, whatever the time of the clock, the age of the
\* X-Knot-Date of the event and the API calls and verifications made in
\* between; an event that verified once verifies at every later time.
C29_Deterministic ==
    /\ \A x, y \in settled : x.outcome = y.outcome
    /\ \A x \in settled :
          x.outcome = checkKnotEventSignature(event,
                         [NoOptions EXCEPT
                             !.knotPublicKey = constructed.options.knotPublicKey])

C29_Witness ==
    \E x, y \in settled :
        /\ x.at = 0 /\ x.calls = 0
        /\ y.at > 0 /\ y.calls > 0
        /\ Len(network) > 0
        /\ x.outcome.result
        /\ y.outcome.result

---------------------------------------------------------------------------

\* C30: every failure of the constructor is an SVaaSError, for every
\* options value it refuses (null, undefined, objects with fields of the
\* wrong type), and never an error of another type.
C30_ConstructorFailsTyped ==
    (constructed.called /\ ~constructed.ok) => constructed.error = "SVaaSError"

\* C30 for the options values that are not null
C30_NotNullFailsTyped ==
    (constructed.called /\ ~constructed.ok /\ constructed.raw.kind # "null")
        => constructed.error = "SVaaSError"

====
